---- MODULE Spec2Model ----
(***************************************************************************)
(* Model of greenlight's process lifecycle (cmd/api server: application    *)
(* .serve with its signal-watcher goroutine) and of the leveled JSON       *)
(* logger (internal/jsonlog: Logger.print).                                *)
(*                                                                         *)
(* Spec      : graceful serve, one main thread and one watcher goroutine.  *)
(* FairSpec  : Spec with the fairness the Go scheduler gives runnable      *)
(*             goroutines (used for the liveness claims).                  *)
(* LogSpec   : concurrent logging calls on one Logger.                     *)
(* SubSpec   : the non-graceful serve next to graceful serve run without   *)
(*             a signal, the latter following the former.                  *)
(***************************************************************************)
EXTENDS Integers, Sequences, FiniteSets, TLC

\* ------------------------------------------------------------------ bounds
MaxConns == 2      \* connections the accept loop may have in flight
MaxTasks == 2      \* background tasks registered in one process lifetime
MaxSignals == 2    \* termination signals the environment delivers
NCalls == 2        \* concurrent logging calls, one thread each

\* --------------------------------------------------------------- constants
Nil == "nil"
None == "none"                              \* "no value yet"
ErrServerClosed == "http: Server closed"
BindErr == "bind: address already in use"
AcceptErr == "accept: too many open files"
CloseErr == "close: listener"
DeadlineExceeded == "context deadline exceeded"
Signals == {"interrupt", "terminated"}      \* SIGINT, SIGTERM
QuitCap == 1                                \* make(chan os.Signal, 1)

\* jsonlog.Level
LevelInfo == 0
LevelError == 1
LevelFatal == 2
LevelOff == 3
Levels == {LevelInfo, LevelError, LevelFatal, LevelOff}
Threads == 1..NCalls
NoHolder == 0                               \* the mutex is free
WriteErr == "write: input/output error"
ExitedFatal == "exit status 1"              \* os.Exit(1)
Newline == "\n"

StartingServer == "starting server"
ShuttingDown == "shutting down server"
CompletingTasks == "completing background tasks"
StoppedServer == "stopped server"

VARIABLES
  proc,        \* "running" | "killed" (default signal action) | "exited"
               \* | ExitedFatal
  mainpc,      \* position of the thread that called serve()
  lerr,        \* value returned by server.ListenAndServe()
  merr,        \* value main received from shutdownError
  ret,         \* value returned by serve()
  wpc,         \* position of the signal-watcher goroutine
  sig,         \* s := <-quit
  werr,        \* err := server.Shutdown(ctx)
  lnerr,       \* error of closing the listeners inside Shutdown
  expired,     \* the 30 s context deadline has passed
  waitSaw,     \* counter value seen by app.wg.Wait() when it returned
  delivered,   \* values handed over on the unbuffered shutdownError channel
  quit,        \* buffered signal channel
  subscribed,  \* signal.Notify has registered quit
  nsig,        \* signals delivered so far
  inShutdown,  \* http.Server.inShutdown
  listener,    \* "none" | "open" | "closed"
  conns,       \* requests in flight
  wg,          \* app.wg counter
  nreg,        \* background tasks registered so far
  events,      \* messages passed to app.logger.PrintInfo, in lock order
  minLevel,    \* Logger.minLevel
  mtx,         \* Logger.mtx: NoHolder or the thread holding it
  sink,        \* Logger.out: the bytes written, each tagged with its call
  lpc,         \* position of each thread inside its logging call
  llevel,      \* level argument of the thread's current call
  lline,       \* line of the thread's current call (with the newline)
  lwritten,    \* bytes of the line the current Write has put in the sink
  lres,        \* (n, err) returned by print to the thread
  spc,         \* non-graceful serve: position of its calling thread
  sevents,     \* non-graceful serve: messages passed to PrintInfo
  sret,        \* non-graceful serve: value returned
  slistener,   \* non-graceful serve: "none" | "open" | "closed"
  sconns       \* non-graceful serve: requests in flight

mainVars == <<mainpc, lerr, merr, ret>>
watchVars == <<wpc, sig, werr, lnerr, expired, waitSaw>>
sigVars == <<quit, subscribed, nsig>>
srvVars == <<inShutdown, listener, conns>>
taskVars == <<wg, nreg>>
serveVars == <<proc, mainVars, watchVars, delivered, sigVars, srvVars, taskVars, events>>

serveRest == <<mainVars, watchVars, delivered, sigVars, srvVars, taskVars, events>>
logVars == <<minLevel, mtx, sink, lpc, llevel, lline, lwritten, lres>>

simpleVars == <<spc, sevents, sret, slistener, sconns>>

vars == <<serveVars, logVars, simpleVars>>

Range(s) == {s[i] : i \in 1..Len(s)}

Running == proc = "running"

\* app.logger.PrintInfo(msg, ...) as seen by the lifecycle: one more event
PrintInfo(msg) == events' = Append(events, msg)

InitServe ==
  /\ proc = "running"
  /\ mainpc = "start" /\ lerr = None /\ merr = None /\ ret = None
  /\ wpc = "idle" /\ sig = None /\ werr = None /\ lnerr = Nil
  /\ expired = FALSE /\ waitSaw = -1
  /\ delivered = <<>>
  /\ quit = <<>> /\ subscribed = FALSE /\ nsig = 0
  /\ inShutdown = FALSE /\ listener = "none" /\ conns = 0
  /\ wg = 0 /\ nreg = 0
  /\ events = <<>>

\* ------------------------------------------------------------ main thread
\* shutdownError := make(chan error); go func() {...}()
MainSpawn ==
  /\ Running /\ mainpc = "start"
  /\ mainpc' = "log_start" /\ wpc' = "notify"
  /\ UNCHANGED <<simpleVars, logVars, proc, lerr, merr, ret, sig, werr, lnerr, expired, waitSaw,
                 delivered, sigVars, srvVars, taskVars, events>>

\* mutant of MainLogStart: the startup event is not logged
MainLogStart_Silent ==
  /\ Running /\ mainpc = "log_start"
  /\ mainpc' = "listen"
  /\ UNCHANGED <<simpleVars, logVars, proc, lerr, merr, ret, watchVars, delivered, sigVars, srvVars,
                 taskVars, events>>

\* app.logger.PrintInfo("starting server", ...)
MainLogStart ==
  /\ Running /\ mainpc = "log_start"
  /\ PrintInfo(StartingServer)
  /\ mainpc' = "listen"
  /\ UNCHANGED <<simpleVars, logVars, proc, lerr, merr, ret, watchVars, delivered, sigVars, srvVars, taskVars>>

\* mutant of MainListen: the listener is bound although Shutdown was called
MainListen_IgnoresShutdown ==
  /\ Running /\ mainpc = "listen"
  /\ \E ok \in BOOLEAN :
       IF ok THEN /\ listener' = "open" /\ mainpc' = "accepting"
                  /\ UNCHANGED lerr
             ELSE /\ lerr' = BindErr /\ mainpc' = "check"
                  /\ UNCHANGED listener
  /\ UNCHANGED <<simpleVars, logVars, proc, merr, ret, watchVars, delivered, sigVars, inShutdown, conns,
                 taskVars, events>>

\* server.ListenAndServe(): ErrServerClosed when Shutdown was already called,
\* otherwise net.Listen either fails or binds the listener
MainListen ==
  /\ Running /\ mainpc = "listen"
  /\ IF inShutdown
       THEN /\ lerr' = ErrServerClosed /\ mainpc' = "check"
            /\ UNCHANGED listener
       ELSE \E ok \in BOOLEAN :
              IF ok THEN /\ listener' = "open" /\ mainpc' = "accepting"
                         /\ UNCHANGED lerr
                    ELSE /\ lerr' = BindErr /\ mainpc' = "check"
                         /\ UNCHANGED listener
  /\ UNCHANGED <<simpleVars, logVars, proc, merr, ret, watchVars, delivered, sigVars, inShutdown, conns,
                 taskVars, events>>

\* accept loop of Serve: one more connection is accepted and served
MainAccept ==
  /\ Running /\ mainpc = "accepting" /\ listener = "open"
  /\ conns < MaxConns
  /\ conns' = conns + 1
  /\ UNCHANGED <<simpleVars, logVars, proc, mainVars, watchVars, delivered, sigVars, inShutdown, listener,
                 taskVars, events>>

\* Accept fails: the sentinel when the server is shutting down, else the
\* genuine error; Serve closes its listener on return
MainAcceptReturn ==
  /\ Running /\ mainpc = "accepting"
  /\ lerr' = IF inShutdown THEN ErrServerClosed ELSE AcceptErr
  /\ listener' = "closed"
  /\ mainpc' = "check"
  /\ UNCHANGED <<simpleVars, logVars, proc, merr, ret, watchVars, delivered, sigVars, inShutdown, conns,
                 taskVars, events>>

\* mutant of MainCheck: the sentinel test is missing
MainCheck_NoSentinelTest ==
  /\ Running /\ mainpc = "check"
  /\ mainpc' = "recv"
  /\ UNCHANGED <<simpleVars, logVars, proc, lerr, merr, ret, watchVars, delivered, sigVars, srvVars,
                 taskVars, events>>

\* mutant of MainCheck: a genuine failure is swallowed
MainCheck_ReturnsNil ==
  /\ Running /\ mainpc = "check"
  /\ IF lerr # ErrServerClosed
       THEN /\ ret' = Nil /\ mainpc' = "done"
       ELSE /\ mainpc' = "recv" /\ UNCHANGED ret
  /\ UNCHANGED <<simpleVars, logVars, proc, lerr, merr, watchVars, delivered, sigVars,
                 srvVars, taskVars, events>>

\* if !errors.Is(err, http.ErrServerClosed) { return err }
MainCheck ==
  /\ Running /\ mainpc = "check"
  /\ IF lerr # ErrServerClosed
       THEN /\ ret' = lerr /\ mainpc' = "done"
       ELSE /\ mainpc' = "recv" /\ UNCHANGED ret
  /\ UNCHANGED <<simpleVars, logVars, proc, lerr, merr, watchVars, delivered, sigVars, srvVars, taskVars, events>>

\* err = <-shutdownError, meeting a watcher blocked in one of its two sends
MainRecv ==
  /\ Running /\ mainpc = "recv"
  /\ wpc \in {"send_err", "send_nil"}
  /\ LET v == IF wpc = "send_err" THEN werr ELSE Nil IN
       /\ merr' = v
       /\ delivered' = Append(delivered, v)
  /\ wpc' = IF wpc = "send_err" THEN "log_completing" ELSE "exit"
  /\ mainpc' = "check_recv"
  /\ UNCHANGED <<simpleVars, logVars, proc, lerr, ret, sig, werr, lnerr, expired, waitSaw,
                 sigVars, srvVars, taskVars, events>>

\* mutant of MainCheckRecv: the nil test is inverted
MainCheckRecv_Inverted ==
  /\ Running /\ mainpc = "check_recv"
  /\ IF merr = Nil
       THEN /\ ret' = merr /\ mainpc' = "done"
       ELSE /\ mainpc' = "log_stopped" /\ UNCHANGED ret
  /\ UNCHANGED <<simpleVars, logVars, proc, lerr, merr, watchVars, delivered, sigVars, srvVars,
                 taskVars, events>>

\* if err != nil { return err }
MainCheckRecv ==
  /\ Running /\ mainpc = "check_recv"
  /\ IF merr # Nil
       THEN /\ ret' = merr /\ mainpc' = "done"
       ELSE /\ mainpc' = "log_stopped" /\ UNCHANGED ret
  /\ UNCHANGED <<simpleVars, logVars, proc, lerr, merr, watchVars, delivered, sigVars, srvVars, taskVars, events>>

\* app.logger.PrintInfo("stopped server", ...); return nil
MainLogStopped ==
  /\ Running /\ mainpc = "log_stopped"
  /\ PrintInfo(StoppedServer)
  /\ ret' = Nil /\ mainpc' = "done"
  /\ UNCHANGED <<simpleVars, logVars, proc, lerr, merr, watchVars, delivered, sigVars, srvVars, taskVars>>

\* ------------------------------------------------------- watcher goroutine
\* quit := make(chan os.Signal, 1); signal.Notify(quit, SIGINT, SIGTERM)
WatchNotify ==
  /\ Running /\ wpc = "notify"
  /\ subscribed' = TRUE
  /\ wpc' = "waitsig"
  /\ UNCHANGED <<simpleVars, logVars, proc, mainVars, sig, werr, lnerr, expired, waitSaw, delivered,
                 quit, nsig, srvVars, taskVars, events>>

\* mutant of WatchRecvSignal: a signal arriving during the drain is taken
\* too and the shutdown sequence starts again
WatchRecvSignal_Rearmed ==
  /\ Running /\ wpc \in {"waitsig", "drain_select"} /\ quit # <<>>
  /\ sig' = Head(quit) /\ quit' = Tail(quit)
  /\ wpc' = "log_shut"
  /\ UNCHANGED <<simpleVars, logVars, proc, mainVars, werr, lnerr, expired, waitSaw, delivered,
                 subscribed, nsig, srvVars, taskVars, events>>

\* s := <-quit
WatchRecvSignal ==
  /\ Running /\ wpc = "waitsig" /\ quit # <<>>
  /\ sig' = Head(quit) /\ quit' = Tail(quit)
  /\ wpc' = "log_shut"
  /\ UNCHANGED <<simpleVars, logVars, proc, mainVars, werr, lnerr, expired, waitSaw, delivered,
                 subscribed, nsig, srvVars, taskVars, events>>

\* app.logger.PrintInfo("shutting down server", {"signal": s.String()})
WatchLogShutting ==
  /\ Running /\ wpc = "log_shut"
  /\ PrintInfo(ShuttingDown)
  /\ wpc' = "shutdown"
  /\ UNCHANGED <<simpleVars, logVars, proc, mainVars, sig, werr, lnerr, expired, waitSaw, delivered,
                 sigVars, srvVars, taskVars>>

\* ctx := context.WithTimeout(30s); server.Shutdown(ctx) begins: inShutdown is set
WatchShutdown ==
  /\ Running /\ wpc = "shutdown"
  /\ inShutdown' = TRUE
  /\ expired' = FALSE
  /\ wpc' = "closing"
  /\ UNCHANGED <<simpleVars, logVars, proc, mainVars, sig, werr, lnerr, waitSaw, delivered,
                 sigVars, listener, conns, taskVars, events>>

\* mutant of WatchCloseListeners: the listener is left open
WatchCloseListeners_LeavesOpen ==
  /\ Running /\ wpc = "closing"
  /\ wpc' = "draining"
  /\ UNCHANGED <<simpleVars, logVars, proc, mainVars, sig, werr, lnerr, expired, waitSaw, delivered,
                 sigVars, srvVars, taskVars, events>>

\* Shutdown closes the listeners; closing may report an error
WatchCloseListeners ==
  /\ Running /\ wpc = "closing"
  /\ IF listener = "open"
       THEN /\ listener' = "closed"
            /\ \E e \in {Nil, CloseErr} : lnerr' = e
       ELSE UNCHANGED <<listener, lnerr>>
  /\ wpc' = "draining"
  /\ UNCHANGED <<simpleVars, logVars, proc, mainVars, sig, werr, expired, waitSaw, delivered,
                 sigVars, inShutdown, conns, taskVars, events>>

\* Shutdown's poll loop: all connections idle -> return the close error
WatchDrainPoll ==
  /\ Running /\ wpc = "draining"
  /\ IF conns = 0
       THEN /\ werr' = lnerr /\ wpc' = "check_err"
       ELSE /\ wpc' = "drain_select" /\ UNCHANGED werr
  /\ UNCHANGED <<simpleVars, logVars, proc, mainVars, sig, lnerr, expired, waitSaw, delivered,
                 sigVars, srvVars, taskVars, events>>

\* select { case <-ctx.Done(): return ctx.Err(); case <-timer.C: }
WatchDrainSelect ==
  /\ Running /\ wpc = "drain_select"
  /\ \/ /\ expired
        /\ werr' = DeadlineExceeded /\ wpc' = "check_err"
     \/ /\ wpc' = "draining" /\ UNCHANGED werr
  /\ UNCHANGED <<simpleVars, logVars, proc, mainVars, sig, lnerr, expired, waitSaw, delivered,
                 sigVars, srvVars, taskVars, events>>

\* mutant of WatchCheckErr: the error of Shutdown is not relayed
WatchCheckErr_DropsError ==
  /\ Running /\ wpc = "check_err"
  /\ wpc' = "log_completing"
  /\ UNCHANGED <<simpleVars, logVars, proc, mainVars, sig, werr, lnerr, expired, waitSaw, delivered,
                 sigVars, srvVars, taskVars, events>>

\* if err != nil { shutdownError <- err }
WatchCheckErr ==
  /\ Running /\ wpc = "check_err"
  /\ wpc' = IF werr # Nil THEN "send_err" ELSE "log_completing"
  /\ UNCHANGED <<simpleVars, logVars, proc, mainVars, sig, werr, lnerr, expired, waitSaw, delivered,
                 sigVars, srvVars, taskVars, events>>

\* mutant of WatchLogCompleting: the event is not logged
WatchLogCompleting_Silent ==
  /\ Running /\ wpc = "log_completing"
  /\ wpc' = "wait"
  /\ UNCHANGED <<simpleVars, logVars, proc, mainVars, sig, werr, lnerr, expired, waitSaw, delivered,
                 sigVars, srvVars, taskVars, events>>

\* app.logger.PrintInfo("completing background tasks", ...)
WatchLogCompleting ==
  /\ Running /\ wpc = "log_completing"
  /\ PrintInfo(CompletingTasks)
  /\ wpc' = "wait"
  /\ UNCHANGED <<simpleVars, logVars, proc, mainVars, sig, werr, lnerr, expired, waitSaw, delivered,
                 sigVars, srvVars, taskVars>>

\* mutant of WatchWait: the wait returns whatever the counter is
WatchWait_NoZeroCheck ==
  /\ Running /\ wpc = "wait"
  /\ waitSaw' = wg
  /\ wpc' = "send_nil"
  /\ UNCHANGED <<simpleVars, logVars, proc, mainVars, sig, werr, lnerr, expired, delivered,
                 sigVars, srvVars, taskVars, events>>

\* mutant of WatchWait: the grace deadline also ends the wait
WatchWait_Timed ==
  /\ Running /\ wpc = "wait"
  /\ wg = 0 \/ expired
  /\ waitSaw' = 0
  /\ wpc' = "send_nil"
  /\ UNCHANGED <<simpleVars, logVars, proc, mainVars, sig, werr, lnerr, expired, delivered,
                 sigVars, srvVars, taskVars, events>>

\* app.wg.Wait(): returns only while the counter is zero
WatchWait ==
  /\ Running /\ wpc = "wait"
  /\ wg = 0
  /\ waitSaw' = wg
  /\ wpc' = "send_nil"
  /\ UNCHANGED <<simpleVars, logVars, proc, mainVars, sig, werr, lnerr, expired, delivered,
                 sigVars, srvVars, taskVars, events>>

\* ------------------------------------------------------------- environment
\* the OS delivers SIGINT or SIGTERM: relayed without blocking to quit when
\* subscribed, otherwise the default action terminates the process
Signal ==
  /\ Running /\ nsig < MaxSignals
  /\ nsig' = nsig + 1
  /\ \E s \in Signals :
       IF subscribed
         THEN /\ quit' = IF Len(quit) < QuitCap THEN Append(quit, s) ELSE quit
              /\ UNCHANGED proc
         ELSE /\ proc' = "killed" /\ UNCHANGED quit
  /\ UNCHANGED <<simpleVars, logVars, mainVars, watchVars, delivered, subscribed, srvVars, taskVars, events>>

\* the context deadline passes (the timer runs until the deferred cancel)
GraceExpire ==
  /\ Running /\ ~expired
  /\ wpc \in {"closing", "draining", "drain_select", "check_err", "send_err",
              "log_completing", "wait", "send_nil"}
  /\ expired' = TRUE
  /\ UNCHANGED <<simpleVars, logVars, proc, mainVars, wpc, sig, werr, lnerr, waitSaw, delivered,
                 sigVars, srvVars, taskVars, events>>

\* a request handler finishes
FinishRequest ==
  /\ Running /\ conns > 0
  /\ conns' = conns - 1
  /\ UNCHANGED <<simpleVars, logVars, proc, mainVars, watchVars, delivered, sigVars, inShutdown, listener,
                 taskVars, events>>

\* a request handler starts a background task: counter incremented
Register ==
  /\ Running /\ conns > 0 /\ nreg < MaxTasks
  /\ wg' = wg + 1 /\ nreg' = nreg + 1
  /\ UNCHANGED <<simpleVars, logVars, proc, mainVars, watchVars, delivered, sigVars, srvVars, events>>

\* a background task completes: counter decremented
Deregister ==
  /\ Running /\ wg > 0
  /\ wg' = wg - 1
  /\ UNCHANGED <<simpleVars, logVars, proc, mainVars, watchVars, delivered, sigVars, srvVars, nreg, events>>

\* the caller of serve() ends the process once serve has returned
ProcessExit ==
  /\ Running /\ mainpc = "done"
  /\ proc' = "exited"
  /\ UNCHANGED <<simpleVars, logVars, mainVars, watchVars, delivered, sigVars, srvVars, taskVars, events>>

MainStep ==
  \/ MainSpawn \/ MainLogStart \/ MainListen \/ MainAccept \/ MainAcceptReturn
  \/ MainCheck \/ MainRecv \/ MainCheckRecv \/ MainLogStopped

WatchStep ==
  \/ WatchNotify \/ WatchRecvSignal \/ WatchLogShutting \/ WatchShutdown
  \/ WatchCloseListeners \/ WatchDrainPoll \/ WatchDrainSelect \/ WatchCheckErr
  \/ WatchLogCompleting \/ WatchWait

\* jsonlog.New(out, minLevel): the threshold is fixed, nobody is logging yet
InitLog(levels) ==
  /\ minLevel \in levels
  /\ mtx = NoHolder
  /\ sink = <<>>
  /\ lpc = [t \in Threads |-> "idle"]
  /\ llevel = [t \in Threads |-> LevelInfo]
  /\ lline = [t \in Threads |-> <<>>]
  /\ lwritten = [t \in Threads |-> 0]
  /\ lres = [t \in Threads |-> [n |-> 0, err |-> None]]

\* non-graceful serve (cmd/api/server.go) before its first statement
InitSimple ==
  /\ spc = "log_start" /\ sevents = <<>> /\ sret = None
  /\ slistener = "none" /\ sconns = 0

Init == InitServe /\ InitLog({LevelInfo}) /\ InitSimple

Next ==
  \/ MainSpawn \/ MainLogStart \/ MainListen \/ MainAccept \/ MainAcceptReturn
  \/ MainCheck \/ MainRecv \/ MainCheckRecv \/ MainLogStopped
  \/ WatchNotify \/ WatchRecvSignal \/ WatchLogShutting \/ WatchShutdown
  \/ WatchCloseListeners \/ WatchDrainPoll \/ WatchDrainSelect \/ WatchCheckErr
  \/ WatchLogCompleting \/ WatchWait
  \/ Signal \/ GraceExpire \/ FinishRequest \/ Register \/ Deregister \/ ProcessExit

Spec == Init /\ [][Next]_vars

\* ------------------------------------------------------------------ logger
\* Level.String()
LevelString(l) ==
  CASE l = LevelInfo -> "INFO"
    [] l = LevelError -> "ERROR"
    [] l = LevelFatal -> "FATAL"
    [] OTHER -> ""

\* mutant of Aux: the trace is captured for FATAL only
Aux_TraceFatalOnly(level) ==
  [Level |-> LevelString(level),
   Trace |-> IF level > LevelError THEN "stack" ELSE ""]

\* the aux struct of print: the trace is captured for ERROR and above
Aux(level) ==
  [Level |-> LevelString(level),
   Trace |-> IF level >= LevelError THEN "stack" ELSE ""]

\* json.Marshal(aux): the fields in order, empty trace omitted; one unit of
\* the line stands for the level, time and message fields together.  The struct
\* holds strings and a map of strings only, so Marshal has no failing case.
Marshal(aux) ==
  <<"level:" \o aux.Level>>
     \o (IF aux.Trace # "" THEN <<"trace:" \o aux.Trace>> ELSE <<>>)

\* PrintInfo / PrintError / PrintFatal: a thread makes its logging call and
\* enters print at the helper's level
LogCall(t) ==
  /\ Running /\ lpc[t] = "idle"
  /\ \E l \in {LevelInfo, LevelError, LevelFatal} :
       llevel' = [llevel EXCEPT ![t] = l]
  /\ lpc' = [lpc EXCEPT ![t] = "print"]
  /\ UNCHANGED <<simpleVars, serveVars, minLevel, mtx, sink, lline, lwritten, lres>>

\* mutant of LogFormat: an entry at the threshold itself is filtered too
LogFormat_FilterAtThreshold(t) ==
  /\ Running /\ lpc[t] = "print"
  /\ IF llevel[t] <= minLevel
       THEN /\ lres' = [lres EXCEPT ![t] = [n |-> 0, err |-> Nil]]
            /\ lpc' = [lpc EXCEPT ![t] = "return"]
            /\ UNCHANGED lline
       ELSE /\ lline' = [lline EXCEPT ![t] = Append(Marshal(Aux(llevel[t])), Newline)]
            /\ lpc' = [lpc EXCEPT ![t] = "lock"]
            /\ UNCHANGED lres
  /\ UNCHANGED <<simpleVars, serveVars, minLevel, mtx, sink, llevel, lwritten>>

\* print up to the lock: the threshold filter, then the line is built
LogFormat(t) ==
  /\ Running /\ lpc[t] = "print"
  /\ IF llevel[t] < minLevel
       THEN /\ lres' = [lres EXCEPT ![t] = [n |-> 0, err |-> Nil]]
            /\ lpc' = [lpc EXCEPT ![t] = "return"]
            /\ UNCHANGED lline
       ELSE /\ lline' = [lline EXCEPT ![t] = Append(Marshal(Aux(llevel[t])), Newline)]
            /\ lpc' = [lpc EXCEPT ![t] = "lock"]
            /\ UNCHANGED lres
  /\ UNCHANGED <<simpleVars, serveVars, minLevel, mtx, sink, llevel, lwritten>>

\* mutant of LogLock: the mutex is taken without waiting for it
LogLock_NoMutex(t) ==
  /\ Running /\ lpc[t] = "lock"
  /\ mtx' = t
  /\ lpc' = [lpc EXCEPT ![t] = "write"]
  /\ UNCHANGED <<simpleVars, serveVars, minLevel, sink, llevel, lline, lwritten, lres>>

\* l.mtx.Lock()
LogLock(t) ==
  /\ Running /\ lpc[t] = "lock"
  /\ mtx = NoHolder
  /\ mtx' = t
  /\ lpc' = [lpc EXCEPT ![t] = "write"]
  /\ UNCHANGED <<simpleVars, serveVars, minLevel, sink, llevel, lline, lwritten, lres>>

\* l.out.Write: the sink takes the next byte; after the last one Write
\* returns (len, nil)
LogWriteByte(t) ==
  /\ Running /\ lpc[t] = "write"
  /\ lwritten[t] < Len(lline[t])
  /\ sink' = Append(sink, [call |-> t, b |-> lline[t][lwritten[t] + 1]])
  /\ lwritten' = [lwritten EXCEPT ![t] = @ + 1]
  /\ IF lwritten[t] + 1 = Len(lline[t])
       THEN /\ lres' = [lres EXCEPT ![t] = [n |-> Len(lline[t]), err |-> Nil]]
            /\ lpc' = [lpc EXCEPT ![t] = "unlock"]
       ELSE UNCHANGED <<lres, lpc>>
  /\ UNCHANGED <<simpleVars, serveVars, minLevel, mtx, llevel, lline>>

\* l.out.Write fails: it returns the bytes written so far and the error
LogWriteFail(t) ==
  /\ Running /\ lpc[t] = "write"
  /\ lres' = [lres EXCEPT ![t] = [n |-> lwritten[t], err |-> WriteErr]]
  /\ lpc' = [lpc EXCEPT ![t] = "unlock"]
  /\ UNCHANGED <<simpleVars, serveVars, minLevel, mtx, sink, llevel, lline, lwritten>>

\* mutant of LogUnlock: the mutex is released on the success path only
LogUnlock_OnlyOnSuccess(t) ==
  /\ Running /\ lpc[t] = "unlock"
  /\ mtx' = IF lres[t].err = Nil THEN NoHolder ELSE mtx
  /\ lpc' = [lpc EXCEPT ![t] = "return"]
  /\ UNCHANGED <<simpleVars, serveVars, minLevel, sink, llevel, lline, lwritten, lres>>

\* defer l.mtx.Unlock()
LogUnlock(t) ==
  /\ Running /\ lpc[t] = "unlock"
  /\ mtx' = NoHolder
  /\ lpc' = [lpc EXCEPT ![t] = "return"]
  /\ UNCHANGED <<simpleVars, serveVars, minLevel, sink, llevel, lline, lwritten, lres>>

\* mutant of LogReturn: PrintFatal returns like the other helpers
LogReturn_NoExit(t) ==
  /\ Running /\ lpc[t] = "return"
  /\ lpc' = [lpc EXCEPT ![t] = "returned"]
  /\ UNCHANGED <<simpleVars, serveVars, minLevel, mtx, sink, llevel, lline, lwritten, lres>>

\* print has returned to PrintInfo / PrintError / PrintFatal: the result is
\* dropped; PrintFatal then calls os.Exit(1)
LogReturn(t) ==
  /\ Running /\ lpc[t] = "return"
  /\ IF llevel[t] = LevelFatal
       THEN /\ proc' = ExitedFatal
            /\ lpc' = [lpc EXCEPT ![t] = "exit1"]
       ELSE /\ lpc' = [lpc EXCEPT ![t] = "returned"]
            /\ UNCHANGED proc
  /\ UNCHANGED <<simpleVars, serveRest, minLevel, mtx, sink, llevel, lline, lwritten, lres>>

LogInit == InitServe /\ InitLog(Levels) /\ InitSimple

LogNext ==
  \E t \in Threads :
    \/ LogCall(t) \/ LogFormat(t) \/ LogLock(t) \/ LogWriteByte(t)
    \/ LogWriteFail(t) \/ LogUnlock(t) \/ LogReturn(t)

LogSpec == LogInit /\ [][LogNext]_vars

\* ------------------------------------------------------ non-graceful serve
\* app.logger.PrintInfo("starting server", ...)
SimpleLogStart ==
  /\ spc = "log_start"
  /\ sevents' = Append(sevents, StartingServer)
  /\ spc' = "listen"
  /\ UNCHANGED <<serveVars, logVars, sret, slistener, sconns>>

\* return server.ListenAndServe(): net.Listen fails, and the error is
\* returned, or the listener is bound and the accept loop starts
SimpleListen ==
  /\ spc = "listen"
  /\ \E ok \in BOOLEAN :
       IF ok THEN /\ slistener' = "open" /\ spc' = "accepting"
                  /\ UNCHANGED sret
             ELSE /\ sret' = BindErr /\ spc' = "done"
                  /\ UNCHANGED slistener
  /\ UNCHANGED <<serveVars, logVars, sevents, sconns>>

\* accept loop: one more connection is accepted and served
SimpleAccept ==
  /\ spc = "accepting" /\ sconns < MaxConns
  /\ sconns' = sconns + 1
  /\ UNCHANGED <<serveVars, logVars, spc, sevents, sret, slistener>>

\* a request handler finishes
SimpleFinishRequest ==
  /\ sconns > 0
  /\ sconns' = sconns - 1
  /\ UNCHANGED <<serveVars, logVars, spc, sevents, sret, slistener>>

\* Accept fails: nothing ever calls Shutdown on this server, so the error
\* is a genuine one, and serve returns it
SimpleAcceptReturn ==
  /\ spc = "accepting"
  /\ sret' = AcceptErr /\ slistener' = "closed"
  /\ spc' = "done"
  /\ UNCHANGED <<serveVars, logVars, sevents, sconns>>

\* Graceful serve, run without any signal next to the non-graceful one: it
\* takes its own steps, those that keep what it has logged and returned
\* within what the non-graceful serve has logged and returned.
IsPrefix(a, b) == Len(a) <= Len(b) /\ SubSeq(b, 1, Len(a)) = a

Follows ==
  /\ IsPrefix(events, sevents)
  /\ ret \in {None, sret}
  /\ lerr \in {None, sret}
  /\ listener # "none" => slistener # "none"

FollowSpawn == MainSpawn /\ Follows'
FollowNotify == WatchNotify /\ Follows'
FollowLogStart == MainLogStart /\ Follows'
FollowListen == MainListen /\ Follows'
FollowAccept == MainAccept /\ Follows'
FollowFinishRequest == FinishRequest /\ Follows'
FollowAcceptReturn == MainAcceptReturn /\ Follows'
FollowCheck == MainCheck /\ Follows'

FollowProgress ==
  \/ FollowSpawn \/ FollowLogStart \/ FollowListen \/ FollowAcceptReturn
  \/ FollowCheck

SubInit == InitServe /\ InitLog({LevelInfo}) /\ InitSimple

SubNext ==
  \/ SimpleLogStart \/ SimpleListen \/ SimpleAccept \/ SimpleFinishRequest
  \/ SimpleAcceptReturn
  \/ FollowSpawn \/ FollowNotify \/ FollowLogStart \/ FollowListen
  \/ FollowAccept \/ FollowFinishRequest \/ FollowAcceptReturn \/ FollowCheck

SubSpec == SubInit /\ [][SubNext]_vars /\ WF_vars(FollowProgress)

\* Fairness of the Go scheduler: a goroutine that can take its next step
\* eventually takes it; Accept on a closed listener returns.  Requests,
\* background tasks, signals and the deadline are under no obligation.
SentinelReturn == listener = "closed" /\ MainAcceptReturn

MainProgress ==
  \/ MainSpawn \/ MainLogStart \/ MainListen \/ SentinelReturn
  \/ MainCheck \/ MainRecv \/ MainCheckRecv \/ MainLogStopped

FairSpec == Spec /\ WF_vars(MainProgress) /\ WF_vars(WatchStep)

\* ------------------------------------------------------- shared predicates
Logged(msg) == msg \in Range(events)
Count(msg) == Cardinality({i \in 1..Len(events) : events[i] = msg})
IsLifecycle(e) == e \in {ShuttingDown, CompletingTasks, StoppedServer}
Lifecycle == SelectSeq(events, IsLifecycle)
DrainFailed == werr \notin {None, Nil}
GenuineFailure == lerr \notin {None, ErrServerClosed}
OnSentinelPath == ret = None /\ lerr \in {None, ErrServerClosed}
ReturnedNil == mainpc = "done" /\ ret = Nil
ListenersClosed ==
  wpc \in {"draining", "drain_select", "check_err", "send_err",
           "log_completing", "wait", "send_nil", "exit"}

\* ------------------------------------------------------------------ claims

\* C1: once the bounded drain has failed and the failure has been delivered
\* on the completion channel, the watcher never logs "completing background
\* tasks" and never waits on the outstanding-task counter.
C1_NoWorkAfterFailure ==
  (DrainFailed /\ delivered # <<>>) =>
     /\ ~Logged(CompletingTasks)
     /\ wpc \notin {"wait", "send_nil"}

\* C2: at most one value is delivered on the completion channel, and once a
\* value has been delivered the watcher never stands at another send.
C2_SingleSend ==
  /\ Len(delivered) <= 1
  /\ delivered # <<>> => wpc \notin {"send_err", "send_nil"}

\* C3: a success outcome is observed by the main thread (nil received,
\* "stopped server" logged, serve returning nil) only after the drain has
\* returned and the counter wait has returned with the counter at zero; the
\* watcher is then neither draining nor waiting.
C3_StoppedAfterDrainAndWait ==
  (Nil \in Range(delivered) \/ merr = Nil \/ Logged(StoppedServer) \/ ret = Nil) =>
     /\ werr # None
     /\ waitSaw = 0
     /\ wpc = "exit"

C3_Witness == ReturnedNil /\ Logged(StoppedServer) /\ nreg > 0 /\ waitSaw = 0

\* C4: when the drain ends with the deadline exceeded, the only outcome the
\* main thread can receive is that failure, serve never returns nil (on the
\* sentinel path it returns the deadline failure) and "stopped server" is
\* never logged.
C4_DeadlineIsTerminalError ==
  werr = DeadlineExceeded =>
     /\ ~Logged(StoppedServer)
     /\ delivered # <<>> => delivered[1] = DeadlineExceeded
     /\ merr \in {None, DeadlineExceeded}
     /\ mainpc = "done" => ret # Nil
     /\ (mainpc = "done" /\ lerr = ErrServerClosed) => ret = DeadlineExceeded

C4_Witness ==
  mainpc = "done" /\ ret = DeadlineExceeded /\ conns > 0 /\ ~Logged(StoppedServer)

\* C5: after a successful drain, with the counter at zero the counter wait
\* returns and serve eventually returns nil; with the counter above zero and
\* staying there, the watcher stays in the wait for ever, nothing is
\* delivered and serve never returns, the deadline having passed or not.
C5_WaitIsUnbounded ==
  /\ (wpc = "wait" /\ werr = Nil /\ wg = 0 /\ OnSentinelPath) ~> ReturnedNil
  /\ []((wpc = "wait" /\ werr = Nil /\ wg > 0 /\ OnSentinelPath) =>
          ([](wg > 0) => [](wpc = "wait" /\ delivered = <<>> /\ ret = None)))

C5_Witness ==
  /\ wpc = "wait" /\ werr = Nil /\ expired
  /\ wg > 0 /\ wg < nreg
  /\ mainpc = "recv" /\ delivered = <<>>

C7_GenuineFailureAborts ==
  /\ GenuineFailure =>
       /\ mainpc \in {"check", "done"}
       /\ delivered = <<>> /\ merr = None
       /\ ~Logged(StoppedServer)
       /\ mainpc = "done" => ret = lerr
  /\ (mainpc \in {"recv", "check_recv", "log_stopped"} \/ delivered # <<>>) =>
       lerr = ErrServerClosed

C7_Witness ==
  mainpc = "done" /\ ret = AcceptErr /\ wpc = "send_nil" /\ delivered = <<>>

\* C8: the watcher is subscribed to the termination signals whenever the
\* accept loop is running, so the default signal action never ends a
\* process that has bound its listener.
C8_ArmedBeforeAccept ==
  /\ listener = "open" => subscribed
  /\ proc = "killed" => listener = "none"

\* C9 (as stated): from the instant the watcher has received the signal no
\* new connection is accepted.
C9_NoAcceptAfterSignal ==
  [][sig # None => conns' <= conns]_vars

\* C9 (amended): once Shutdown has closed the listener no new connection is
\* accepted, and no step of the watcher or of the deadline ends a request:
\* requests only end by finishing.
C9_NoAcceptAfterClose ==
  /\ [][ListenersClosed => conns' <= conns]_vars
  /\ [][(wpc' # wpc \/ expired' # expired \/ inShutdown' # inShutdown)
          => conns' = conns]_vars

C9_Witness ==
  /\ wpc = "drain_select" /\ expired /\ conns = MaxConns
  /\ listener = "closed" /\ mainpc = "recv"

\* C14: a failed drain leads to serve returning that failure, whatever the
\* task counter does: no step between the receive and the return waits.
C14_FailureNotDelayed ==
  /\ (DrainFailed /\ OnSentinelPath) ~> (mainpc = "done" /\ ret = werr)
  /\ []((mainpc = "done" /\ merr \notin {None, Nil}) => (ret = merr /\ ret = werr))
  /\ [][(mainpc = "check_recv" /\ merr # Nil /\ mainpc' # mainpc)
          => (mainpc' = "done" /\ ret' = merr)]_vars

C14_Witness ==
  /\ mainpc = "done" /\ ret = DeadlineExceeded /\ proc = "running"
  /\ wpc = "wait" /\ wg > 0

\* C15: whatever the number of signals, "shutting down server" is logged at
\* most once, Shutdown is invoked at most once and by the watcher, the
\* watcher never takes a second signal, and a signal arriving once the first
\* was taken changes neither the drain, its deadline nor the outcome.
C15_ActsOnOneSignal ==
  /\ [](Count(ShuttingDown) <= 1)
  /\ [][inShutdown' # inShutdown
          => (~inShutdown /\ wpc = "shutdown" /\ wpc' = "closing")]_vars
  /\ [][sig # None => (sig' = sig /\ Len(quit') >= Len(quit))]_vars
  /\ [][werr # None => werr' = werr]_vars
  /\ [][(nsig' # nsig /\ sig # None)
          => UNCHANGED <<wpc, werr, lnerr, expired, inShutdown, listener, conns,
                         delivered, mainVars, events>>]_vars

C15_Witness ==
  /\ nsig = 2 /\ Len(quit) = 1 /\ sig # None
  /\ wpc = "exit" /\ ReturnedNil /\ Count(ShuttingDown) = 1

\* C16 (as stated): the startup event is logged once, after the listener is
\* bound, and not at all when binding fails.
C16_LoggedAfterBind ==
  /\ Count(StartingServer) <= 1
  /\ Logged(StartingServer) => listener # "none"
  /\ lerr = BindErr => ~Logged(StartingServer)

\* C16 (amended): the startup event is logged exactly once, before
\* ListenAndServe is called, hence before the listener is bound and before
\* any connection is accepted, and also when binding then fails.
C16_LoggedBeforeListen ==
  /\ Count(StartingServer) = IF mainpc \in {"start", "log_start"} THEN 0 ELSE 1
  /\ (listener # "none" \/ conns > 0 \/ lerr # None \/ ret # None)
        => Logged(StartingServer)
  /\ mainpc \in {"start", "log_start"} => (listener = "none" /\ conns = 0)

C16_Witness ==
  /\ mainpc = "done" /\ ret = BindErr /\ listener = "none"
  /\ Count(StartingServer) = 1

\* C17: when Shutdown is called before the main thread calls
\* ListenAndServe, no listener is bound and no connection accepted, serve
\* receives one outcome and returns nil after logging "stopped server";
\* serve never returns the sentinel.
EarlyShutdown == inShutdown /\ mainpc \in {"log_start", "listen"}

C17_ShutdownBeforeListen ==
  /\ EarlyShutdown ~>
       (/\ ReturnedNil /\ Logged(StoppedServer)
        /\ delivered = <<Nil>> /\ lerr = ErrServerClosed
        /\ listener = "none" /\ conns = 0)
  /\ [](EarlyShutdown => (listener = "none" /\ conns = 0 /\ wg = 0))
  /\ [](ret # ErrServerClosed)

C17_Witness ==
  /\ ReturnedNil /\ listener = "none" /\ lerr = ErrServerClosed
  /\ delivered = <<Nil>> /\ wpc = "exit"

\* C19: whatever the non-graceful serve logs and returns, graceful serve,
\* in an execution without any signal (watcher never past its wait for
\* one, no Shutdown, nothing on the completion channel), logs and returns
\* the same; the non-graceful serve logs nothing but the startup event and
\* returns nothing but the error of ListenAndServe.
C19_NonGracefulIsSubset ==
  /\ [](sevents # <<>> => <>(events = sevents))
  /\ [](sret # None => <>(mainpc = "done" /\ ret = sret /\ events = sevents))
  /\ [](IsPrefix(events, sevents) /\ ret \in {None, sret})
  /\ [](/\ nsig = 0 /\ sig = None /\ ~inShutdown /\ delivered = <<>>
        /\ wpc \in {"idle", "notify", "waitsig"} /\ werr = None /\ waitSaw = -1)
  /\ [](/\ sevents \in {<<>>, <<StartingServer>>}
        /\ sret \in {None, BindErr, AcceptErr}
        /\ spc = "done" <=> sret # None)

C19_Witness ==
  /\ spc = "done" /\ sret = AcceptErr /\ sevents = <<StartingServer>>
  /\ mainpc = "done" /\ ret = AcceptErr /\ events = sevents
  /\ wpc = "waitsig" /\ nsig = 0

\* ----------------------------------------------------------- logger claims
Bytes(t) == SelectSeq(sink, LAMBDA e : e.call = t)
Text(seq) == [i \in 1..Len(seq) |-> seq[i].b]
Newlines == Cardinality({i \in 1..Len(sink) : sink[i].b = Newline})
Finished(t) == lpc[t] \in {"returned", "exit1"}
AtOrAbove(t) == llevel[t] >= minLevel
InWrite(t) == lpc[t] \in {"write", "unlock"}
WroteAll(t) == lres[t].err = Nil /\ lres[t].n > 0

\* no two callers are inside the sink write at once
OneWriter ==
  /\ \A t, u \in Threads : (InWrite(t) /\ InWrite(u)) => t = u
  /\ \A t \in Threads : InWrite(t) => mtx = t

\* a line of the sink never holds bytes of two calls
NoMixedLine ==
  \A i \in 1..(Len(sink) - 1) :
     sink[i].b # Newline => sink[i + 1].call = sink[i].call

\* the bytes of one call are never split by bytes of another
Contiguous ==
  \A i, k \in 1..Len(sink) :
     (i < k /\ sink[i].call = sink[k].call) =>
        \A j \in i..k : sink[j].call = sink[i].call

\* C10 (as stated): every call at or above the threshold puts exactly one
\* complete newline-terminated line in the sink, no line holds bytes of two
\* calls, no two callers write at once, and the lines number the calls at or
\* above the threshold.
C10_OneLinePerCall ==
  /\ OneWriter
  /\ NoMixedLine
  /\ \A t \in Threads :
       (Finished(t) /\ AtOrAbove(t)) => Text(Bytes(t)) = lline[t]
  /\ (\A t \in Threads : Finished(t)) =>
       Newlines = Cardinality({t \in Threads : AtOrAbove(t)})

\* C10 (amended): no two callers write at once and the bytes of two calls
\* are never interleaved; every call whose sink write succeeded has put
\* exactly its one complete newline-terminated line in the sink, and the
\* complete lines number the calls whose write succeeded.
C10_OneLinePerSuccessfulWrite ==
  /\ OneWriter
  /\ Contiguous
  /\ \A t \in Threads :
       WroteAll(t) =>
          /\ Text(Bytes(t)) = lline[t]
          /\ lline[t][Len(lline[t])] = Newline
          /\ Cardinality({i \in 1..Len(lline[t]) : lline[t][i] = Newline}) = 1
  /\ Newlines = Cardinality({t \in Threads : WroteAll(t)})

C10_Witness ==
  /\ \A t \in Threads : lpc[t] = "returned" /\ WroteAll(t)
  /\ sink[1].call # sink[Len(sink)].call

Started(t) == lpc[t] # "idle"
PastFilter(t) == lpc[t] \notin {"idle", "print"}
WriteReturned(t) == lres[t].err = WriteErr \/ WroteAll(t)
TraceUnit == "trace:stack"
HasTrace(seq) == TraceUnit \in Range(seq)

\* C11: a call below the threshold writes nothing, never takes the lock and
\* returns (0, nil); a call at or above it performs the sink write under the
\* lock, and its bytes in the sink are bytes of its own line.
C11_ThresholdFilter ==
  \A t \in Threads :
     /\ (PastFilter(t) /\ llevel[t] < minLevel) =>
          /\ Bytes(t) = <<>> /\ lline[t] = <<>>
          /\ lpc[t] \in {"return", "returned", "exit1"}
          /\ mtx # t
          /\ lres[t] = [n |-> 0, err |-> Nil]
     /\ (PastFilter(t) /\ llevel[t] >= minLevel) =>
          /\ lline[t] # <<>>
          /\ lpc[t] \in {"lock", "write", "unlock", "return", "returned", "exit1"}
          /\ Finished(t) => WriteReturned(t)
          /\ WroteAll(t) => Text(Bytes(t)) = lline[t]
     /\ Bytes(t) # <<>> => llevel[t] >= minLevel

C11_Witness ==
  \E t, u \in Threads :
     /\ lpc[t] = "returned" /\ llevel[t] = LevelInfo /\ minLevel = LevelError
     /\ Bytes(t) = <<>> /\ lres[t] = [n |-> 0, err |-> Nil]
     /\ lpc[u] = "returned" /\ llevel[u] = LevelError /\ WroteAll(u)

\* C12 (as stated): every FATAL call that has ended has put exactly one
\* complete entry in the sink, whatever the threshold and the sink do.
C12_FatalAlwaysWrites ==
  \A t \in Threads :
     (lpc[t] = "exit1") =>
        /\ proc = ExitedFatal
        /\ Bytes(t) # <<>> /\ Text(Bytes(t)) = lline[t]

\* C12 (amended): a FATAL call never returns to its caller: once print has
\* returned, the next step of the call ends the process with status 1,
\* whether the entry was filtered (threshold OFF), written, or the write
\* failed; the sink write is performed once iff the threshold is at most
\* FATAL, and a successful one leaves exactly the one entry.
C12_FatalTerminates ==
  /\ [](\A t \in Threads :
          /\ (Started(t) /\ llevel[t] = LevelFatal) => lpc[t] # "returned"
          /\ lpc[t] = "exit1" =>
               /\ llevel[t] = LevelFatal /\ proc = ExitedFatal
               /\ mtx # t
               /\ IF minLevel <= LevelFatal
                    THEN WriteReturned(t)
                    ELSE Bytes(t) = <<>> /\ lres[t] = [n |-> 0, err |-> Nil]
               /\ WroteAll(t) => Text(Bytes(t)) = lline[t]
               /\ Len(Bytes(t)) <= Len(lline[t]))
  /\ [](proc # "running" => \E t \in Threads : lpc[t] = "exit1")
  /\ [][\A t \in Threads :
          (lpc[t] = "return" /\ llevel[t] = LevelFatal /\ lpc'[t] # lpc[t])
             => (proc' = ExitedFatal /\ lpc'[t] = "exit1")]_vars

C12_Witness ==
  \E t \in Threads :
     /\ lpc[t] = "exit1" /\ proc = ExitedFatal
     /\ lres[t].err = WriteErr /\ lres[t].n = 1 /\ Len(Bytes(t)) = 1

\* C13: a failed sink write of an INFO or ERROR call is returned by print,
\* the mutex is released and the call returns with the process running; the
\* mutex is held only by a call that is inside the write, so it is free
\* whenever no call is in progress.
C13_FailedWriteReleasesLock ==
  /\ \A t \in Threads :
       /\ lpc[t] \in {"return", "returned", "exit1"} => mtx # t
       /\ (lpc[t] = "returned" /\ PastFilter(t) /\ llevel[t] >= minLevel
             /\ ~WroteAll(t)) => lres[t] = [n |-> Len(Bytes(t)), err |-> WriteErr]
       /\ lpc[t] = "returned" => llevel[t] \in {LevelInfo, LevelError}
  /\ mtx # NoHolder => (mtx \in Threads /\ InWrite(mtx))
  /\ (\A t \in Threads : lpc[t] \in {"idle", "print", "lock", "return", "returned", "exit1"})
        => mtx = NoHolder
  /\ (\A t \in Threads : lpc[t] \in {"idle", "returned"}) => proc = "running"

C13_Witness ==
  \E t, u \in Threads :
     /\ lpc[t] = "returned" /\ lres[t].err = WriteErr /\ lres[t].n > 0
     /\ lpc[u] = "returned" /\ WroteAll(u)
     /\ sink[1].call = t /\ sink[Len(sink)].call = u
     /\ mtx = NoHolder /\ proc = "running"

\* C18: the line of a call carries the trace iff the call is at ERROR or
\* FATAL, whatever the threshold, and the trace reaches the sink only from
\* such calls.
C18_TraceIffErrorOrFatal ==
  /\ \A t \in Threads :
       lline[t] # <<>> =>
          /\ HasTrace(lline[t]) <=> llevel[t] \in {LevelError, LevelFatal}
          /\ WroteAll(t) => (HasTrace(Text(Bytes(t))) <=> llevel[t] >= LevelError)
  /\ \A i \in 1..Len(sink) :
       sink[i].b = TraceUnit => llevel[sink[i].call] # LevelInfo

C18_Witness ==
  \E t, u \in Threads :
     /\ WroteAll(t) /\ llevel[t] = LevelInfo /\ ~HasTrace(Text(Bytes(t)))
     /\ WroteAll(u) /\ llevel[u] = LevelError /\ HasTrace(Text(Bytes(u)))

TypeOK ==
  /\ proc \in {"running", "killed", "exited", ExitedFatal}
  /\ conns \in 0..MaxConns /\ wg \in 0..MaxTasks /\ nreg \in 0..MaxTasks
  /\ nsig \in 0..MaxSignals /\ Len(quit) <= QuitCap
  /\ Len(delivered) <= 2
  /\ sconns \in 0..MaxConns /\ Len(sevents) <= 1
====
